---- MODULE Spec2Model ----
(***************************************************************************)
(* A model of the frame processors of the voice pipeline:                  *)
(*   - CustomWhisperSTT      (example/bot.py)                              *)
(*   - LocalWhisperSTT       (services/stt_service.py)                     *)
(*   - OllamaLLM + OllamaService.stream_chat (main.py, llm_service.py)     *)
(*   - KokoroTTS + KokoroTTSClient.generate_audio (main.py, tts_service.py)*)
(* The repository has two programs.  app = "example" runs the              *)
(* CustomWhisperSTT of example/bot.py; app = "main" runs the pipeline of   *)
(* main.py: LocalWhisperSTT -> OllamaLLM -> KokoroTTS.                     *)
(* The session specification adds app = "bot-local", the entry point of    *)
(* bot-local.py, whose processors are all library services, and the        *)
(* transport event handlers of the three entry points.  The configuration  *)
(* specification models bot_config.py, and the connections specification   *)
(* the objects websocket_endpoint constructs for each connection.          *)
(* Text is a sequence of one-character strings, audio a sequence of bytes. *)
(***************************************************************************)
EXTENDS Integers, Sequences, FiniteSets, TLC

\* ------------------------------------------------------------------ bounds
\* Number of frames delivered to the speech-to-text processor.
MaxFrames == 3
\* Number of frames delivered to OllamaLLM when it is driven on its own.
MaxLLMFrames == 2
\* Number of parts the language-model engine sends in one stream.
MaxParts == 2
\* Largest buffer_threshold given to CustomWhisperSTT.
MaxThreshold == 3

\* Number of frames delivered to KokoroTTS on its own.
MaxTTSFrames == 3

\* Number of operations on the open connections.
MaxConnOps == 5

\* Number of frames given to a speech-to-text processor whose flush is
\* followed through its await point.
MaxFlushFrames == 3

\* ------------------------------------------------------------------ inputs
\* Audio payloads of the AudioRawFrames: empty, odd length, even length.
AudioChunks == { <<>>, <<1>>, <<2, 255>> }

\* Texts of the TextFrames reaching the speech-to-text processor.
SignalTexts == { <<" ">>, <<"e", "n", "d">> }

\* Texts the speech-to-text engine returns under result["text"].
EngineTexts == { <<>>, <<" ">>, <<" ", "h", "i", "\n">>, <<"y", "o">> }

\* Contents of the parts of a language-model stream.
PartContents == { <<>>, <<"H", "i">>, <<"!">> }

\* Audio the text-to-speech server answers with.
TTSAudio == { <<>>, <<7, 7>>, <<9>> }

\* Texts of the TextFrames KokoroTTS is given.
TTSTexts == { <<>>, <<"H", "i">>, <<"!">> }

\* ------------------------------------------------------------------ frames
Frame(t, x, a) == [type |-> t, text |-> x, audio |-> a]
AudioRawFrame(a) == Frame("audio", <<>>, a)
TextFrame(x) == Frame("text", x, <<>>)
TranscriptionFrame(x) == Frame("transcription", x, <<>>)

\* The fields TranscriptionFrame takes: `text` and, with no default value,
\* `user_id` and `timestamp`.
TranscriptionFrameFields == {"text", "user_id", "timestamp"}

\* TranscriptionFrame(...) called without one of its fields raises TypeError.
TranscriptionFrameRaises(given) == ~(TranscriptionFrameFields \subseteq given)

\* `TranscriptionFrame(text=text, user_id=None, timestamp=time.time())`
CustomTranscriptionArgs == {"text", "user_id", "timestamp"}

\* `TranscriptionFrame(text)`
LocalTranscriptionArgs == {"text"}
OtherFrame == Frame("other", <<>>, <<>>)

\* isinstance(frame, AudioRawFrame)
IsAudioRawFrame(f) == f.type = "audio"
\* isinstance(frame, TextFrame): TranscriptionFrame derives from TextFrame.
IsTextFrame(f) == f.type \in {"text", "transcription"}
\* isinstance(frame, TranscriptionFrame)
IsTranscriptionFrame(f) == f.type = "transcription"

\* Frames the transport delivers to the speech-to-text processor.
InputFrames ==
    {AudioRawFrame(a) : a \in AudioChunks}
        \cup {TextFrame(x) : x \in SignalTexts}
        \cup {OtherFrame}

\* ------------------------------------------------------------ pure helpers
\* str.strip(): leading and trailing whitespace removed. The characters
\* str.isspace() accepts, as far as a string of this language can hold
\* them: tab, line feed, vertical tab (0x0B), form feed, carriage return,
\* the separators 0x1C..0x1F, space, next line (0x85), no-break space
\* (0xA0) and the ogham space mark (U+1680). The remaining ones
\* (U+2000..U+200A, U+2028, U+2029, U+202F, U+205F, U+3000) cannot be
\* written in a string, and no text of the model holds them.
IsSpace(c) ==
    c \in {" ", "\t", "\n", "\r", "\f", "", "", "", "", "",
           "", " ", " "}

RECURSIVE LStrip(_)
LStrip(s) == IF s # <<>> /\ IsSpace(Head(s)) THEN LStrip(Tail(s)) ELSE s

RECURSIVE RStrip(_)
RStrip(s) ==
    IF s # <<>> /\ IsSpace(s[Len(s)]) THEN RStrip(SubSeq(s, 1, Len(s) - 1)) ELSE s

Strip(s) == RStrip(LStrip(s))

\* One little-endian signed 16-bit sample from two bytes.
Int16(lo, hi) ==
    LET u == lo + 256 * hi IN IF u >= 32768 THEN u - 65536 ELSE u

\* np.frombuffer(buf, dtype=np.int16) raises ValueError unless the size is a
\* whole number of 2-byte elements.
FromBufferOk(buf) == Len(buf) % 2 = 0

\* np.frombuffer(buf, dtype=np.int16).astype(np.float32) / 32768.0: each
\* sample is kept as its numerator over 32768.
FromBuffer(buf) == [i \in 1..(Len(buf) \div 2) |-> Int16(buf[2 * i - 1], buf[2 * i])]

\* `buffer_threshold: int = 16000`, the default of CustomWhisperSTT.__init__,
\* compared with len(self._audio_buffer), a count of bytes.
DEFAULT_BUFFER_THRESHOLD == 16000

\* bytearray.extend(frame.audio)
ExtendBuffer(buf, audio) == buf \o audio

\* Outcomes of self._model.transcribe: a result dict or an exception.
STTOutcomes ==
    {[kind |-> "ok", text |-> x] : x \in EngineTexts}
        \cup {[kind |-> "raise", text |-> <<>>]}

\* ---------------------------------------------------------------- variables
VARIABLES
    app,              \* which program runs: "example" or "main"
    model,            \* CustomWhisperSTT._model is loaded (not None)
    buffer_threshold, \* CustomWhisperSTT._buffer_threshold
    audio_buffer,     \* _audio_buffer of the speech-to-text processor
    n_frames,         \* frames delivered to the first processor
    stt_last,         \* the latest process_frame call of the speech-to-text
                      \* processor: its frame, the buffer before it, the audio
                      \* accepted since the flush attempt before it, what it
                      \* pushed, the engine calls and flush attempts it made,
                      \* and whether it raised
    utterance_in,     \* audio accepted since the latest flush attempt
    n_transcripts,    \* engine results whose stripped text is not empty
    c_audio_chunks,   \* CustomWhisperSTT: audio payloads accepted, in order
    c_utterances,     \* CustomWhisperSTT: buffers flushed, in order
    flushing,         \* frames whose process_frame call is suspended in a flush
    llm_in,           \* frames waiting at OllamaLLM
    messages,         \* OllamaLLM.messages
    llm_pc,           \* OllamaLLM.process_frame: "idle" or "streaming"
    full_response,    \* local full_response of OllamaLLM.process_frame
    llm_calls,        \* number of stream_chat requests opened
    turn_parts,       \* parts the engine sent in the current/latest stream
    turn_deltas,      \* texts pushed as TextFrame in the current/latest turn
    turn_base,        \* len(messages) right after the user append
    turn_outcome,     \* "none", "streaming", "completed" or "failed"
    tts_in,           \* frames waiting at KokoroTTS
    out,              \* frames KokoroTTS pushed to the transport output
    llm_streams,      \* stream_chat generators OllamaLLM is iterating
    turn_request,     \* messages given to the engine by the latest stream_chat
    spoken,           \* texts of the TranscriptionFrames sent to OllamaLLM
    tts_last,         \* the latest process_frame call of KokoroTTS when
                      \* the stage runs on its own
    session,          \* lifecycle state of the session
    queued,           \* frames the event handlers queued on the task
    ready_pc,         \* on_client_ready of bot-local.py: "none", "bot_ready"
                      \* (set_bot_ready awaited, frames not queued yet), "done"
    disconnected,     \* the transport reported the client's disconnect
    stream_cut,       \* the stream OllamaLLM was iterating at the disconnect:
                      \* its number and the deltas pushed until then
    cfg,              \* bot_config.py: the inputs and what the calls did
    conns             \* main.py: the objects of the open connections

stt_vars ==
    <<model, buffer_threshold, audio_buffer, n_frames, stt_last, utterance_in,
      n_transcripts, c_audio_chunks, c_utterances, flushing>>
llm_vars ==
    <<messages, llm_pc, full_response, llm_calls, turn_parts, turn_deltas,
      turn_base, turn_outcome, llm_streams, turn_request>>
sess_vars == <<session, queued, ready_pc, disconnected, stream_cut>>
side_vars == <<sess_vars, cfg, conns>>
vars == <<app, stt_vars, llm_in, llm_vars, tts_in, out, spoken, tts_last,
          side_vars>>

\* PipelineTask.cancel() has been called: the task processes nothing more.
TaskCancelled == session \in {"cancelling", "closed"}

\* ------------------------------------------------------- speech to text
\* Mutation: the empty-buffer test never answers yes.
BufferIsEmpty_Never(buf) == FALSE

\* `not self._audio_buffer`
BufferIsEmpty(buf) == buf = <<>>

\* `self._audio_buffer = bytearray()` in the finally clause
ClearedBuffer(buf) == <<>>

\* `len(self._audio_buffer) >= self._buffer_threshold and self._model`
ShouldTranscribe(buf, threshold, loaded) == Len(buf) >= threshold /\ loaded

\* Mutation: the TranscriptionFrame is pushed without the `if text` test.
TranscriptFrames_NoGuard(eng) == <<TranscriptionFrame(Strip(eng.text))>>

\* CustomWhisperSTT: `text = result.get("text", "").strip()` then `if text:`
\* push a TranscriptionFrame: the frames pushed for an engine result.
TranscriptFrames(eng) ==
    LET text == Strip(eng.text)
    IN IF text # <<>> /\ ~TranscriptionFrameRaises(CustomTranscriptionArgs)
       THEN <<TranscriptionFrame(text)>>
       ELSE <<>>

\* LocalWhisperSTT: `text = result["text"].strip()` then `if text:`
\* `await self.push_frame(TranscriptionFrame(text))`.  The constructor is
\* called with the text alone and raises TypeError, which the
\* `except Exception` of the same try catches: nothing is pushed.
LocalTranscriptFrames(eng) ==
    LET text == Strip(eng.text)
    IN IF text # <<>> /\ ~TranscriptionFrameRaises(LocalTranscriptionArgs)
       THEN <<TranscriptionFrame(text)>>
       ELSE <<>>

\* CustomWhisperSTT._transcribe_buffer reaches
\* `await self.push_frame(TranscriptionFrame(...))`: the buffer is not empty,
\* it converts, the engine returns and the stripped text is not empty.
FlushSuspends(buf, eng) ==
    /\ ~BufferIsEmpty(buf)
    /\ FromBufferOk(buf)
    /\ eng.kind # "raise"
    /\ TranscriptFrames(eng) # <<>>

\* CustomWhisperSTT._transcribe_buffer at that await: the buffer has been
\* read and the engine called, the TranscriptionFrame is handed downstream,
\* and the buffer still holds what was read.
TranscribeToAwait(buf, eng) ==
    [buffer |-> buf, pushed |-> TranscriptFrames(eng),
     calls |-> <<FromBuffer(buf)>>,
     flushes |-> <<[audio |-> buf, outcome |-> "result", text |-> eng.text]>>,
     raised |-> FALSE]

\* CustomWhisperSTT._transcribe_buffer, from its first line to its return:
\* the conversion, the engine call and the push are inside the try; the
\* finally clause clears the buffer.
TranscribeBuffer(buf, eng) ==
    IF BufferIsEmpty(buf)
    THEN [buffer |-> buf, pushed |-> <<>>, calls |-> <<>>,
          flushes |-> <<>>, raised |-> FALSE]
    ELSE IF ~FromBufferOk(buf)
    THEN [buffer |-> ClearedBuffer(buf), pushed |-> <<>>, calls |-> <<>>,
          flushes |-> <<[audio |-> buf, outcome |-> "malformed", text |-> <<>>]>>,
          raised |-> FALSE]
    ELSE IF eng.kind = "raise"
    THEN [buffer |-> ClearedBuffer(buf), pushed |-> <<>>,
          calls |-> <<FromBuffer(buf)>>,
          flushes |-> <<[audio |-> buf, outcome |-> "engine_error", text |-> <<>>]>>,
          raised |-> FALSE]
    ELSE [buffer |-> ClearedBuffer(buf), pushed |-> TranscriptFrames(eng),
          calls |-> <<FromBuffer(buf)>>,
          flushes |-> <<[audio |-> buf, outcome |-> "result", text |-> eng.text]>>,
          raised |-> FALSE]

\* CustomWhisperSTT.process_frame
CustomProcess(buf, threshold, loaded, f, eng) ==
    IF IsAudioRawFrame(f)
    THEN LET b1 == ExtendBuffer(buf, f.audio)
             r == IF ShouldTranscribe(b1, threshold, loaded)
                  THEN TranscribeBuffer(b1, eng)
                  ELSE [buffer |-> b1, pushed |-> <<>>, calls |-> <<>>,
                        flushes |-> <<>>, raised |-> FALSE]
         IN [r EXCEPT !.pushed = Append(r.pushed, f)]
    ELSE [buffer |-> buf, pushed |-> <<f>>, calls |-> <<>>,
          flushes |-> <<>>, raised |-> FALSE]

\* LocalWhisperSTT.process_frame, the TextFrame branch: the conversion is
\* before the try, the engine call and the construction of the
\* TranscriptionFrame are inside it, the finally clause clears the buffer,
\* and the TextFrame is pushed after it.
LocalFlush(buf, f, eng) ==
    IF BufferIsEmpty(buf)
    THEN [buffer |-> buf, pushed |-> <<>>, calls |-> <<>>,
          flushes |-> <<>>, raised |-> FALSE]
    ELSE IF ~FromBufferOk(buf)
    THEN [buffer |-> buf, pushed |-> <<>>, calls |-> <<>>,
          flushes |-> <<[audio |-> buf, outcome |-> "malformed", text |-> <<>>]>>,
          raised |-> TRUE]
    ELSE IF eng.kind = "raise"
    THEN [buffer |-> ClearedBuffer(buf), pushed |-> <<f>>,
          calls |-> <<FromBuffer(buf)>>,
          flushes |-> <<[audio |-> buf, outcome |-> "engine_error", text |-> <<>>]>>,
          raised |-> FALSE]
    ELSE [buffer |-> ClearedBuffer(buf),
          pushed |-> Append(LocalTranscriptFrames(eng), f),
          calls |-> <<FromBuffer(buf)>>,
          flushes |-> <<[audio |-> buf, outcome |-> "result", text |-> eng.text]>>,
          raised |-> FALSE]

\* `isinstance(frame, TextFrame) and frame.text.strip()`
IsEndOfUtterance(f) == IsTextFrame(f) /\ Strip(f.text) # <<>>

\* LocalWhisperSTT.process_frame
LocalProcess(buf, f, eng) ==
    IF IsAudioRawFrame(f)
    THEN [buffer |-> ExtendBuffer(buf, f.audio), pushed |-> <<f>>,
          calls |-> <<>>, flushes |-> <<>>, raised |-> FALSE]
    ELSE IF IsEndOfUtterance(f)
    THEN LocalFlush(buf, f, eng)
    ELSE [buffer |-> buf, pushed |-> <<f>>, calls |-> <<>>,
          flushes |-> <<>>, raised |-> FALSE]

\* A character that str.strip() keeps.
IsInk(c) == ~IsSpace(c)

\* An engine text with something left to transcribe: it has a character
\* that is not whitespace.
HasInk(text) == \E i \in 1..Len(text) : IsInk(text[i])

\* The effect of one process_frame call of the speech-to-text processor.
STTStep(r, f) ==
    /\ audio_buffer' = r.buffer
    /\ stt_last' = [frame |-> f, before |-> audio_buffer,
                    heard |-> IF IsAudioRawFrame(f) THEN utterance_in \o f.audio
                              ELSE utterance_in,
                    pushed |-> r.pushed, calls |-> r.calls,
                    flushes |-> r.flushes, raised |-> r.raised]
    /\ utterance_in' =
          IF IsAudioRawFrame(f)
          THEN IF r.flushes # <<>> THEN <<>> ELSE utterance_in \o f.audio
          ELSE IF r.flushes # <<>> THEN <<>> ELSE utterance_in
    /\ n_transcripts' =
          n_transcripts
              + Cardinality({i \in 1..Len(r.flushes) :
                    r.flushes[i].outcome = "result" /\ HasInk(r.flushes[i].text)})
    /\ n_frames' = n_frames + 1
    /\ UNCHANGED <<side_vars, app, model, buffer_threshold>>

\* The process_frame call of CustomWhisperSTT for frame f stops at the await
\* of _transcribe_buffer.
CustomSuspends(buf, threshold, loaded, f, eng) ==
    /\ IsAudioRawFrame(f)
    /\ ShouldTranscribe(ExtendBuffer(buf, f.audio), threshold, loaded)
    /\ FlushSuspends(ExtendBuffer(buf, f.audio), eng)

\* example/bot.py: a frame reaches CustomWhisperSTT; the processors after it
\* are library services.  The call runs to its end, or to the await of
\* _transcribe_buffer when there is a transcript to push: the buffer is
\* reset and the audio frame pushed only when that await returns
\* (CustomResume).  Frames are taken one after another.
CustomProcessFrame ==
    /\ app = "example"
    /\ ~TaskCancelled
    /\ flushing = <<>>
    /\ n_frames < MaxFrames
    /\ \E f \in InputFrames, eng \in STTOutcomes :
          LET suspends == CustomSuspends(audio_buffer, buffer_threshold, model,
                                         f, eng)
              r == IF suspends
                   THEN TranscribeToAwait(ExtendBuffer(audio_buffer, f.audio), eng)
                   ELSE CustomProcess(audio_buffer, buffer_threshold, model,
                                      f, eng)
          IN /\ STTStep(r, f)
             /\ flushing' = IF suspends THEN <<f>> ELSE <<>>
             /\ c_audio_chunks' =
                   IF IsAudioRawFrame(f) THEN Append(c_audio_chunks, f.audio)
                   ELSE c_audio_chunks
             /\ c_utterances' =
                   c_utterances \o [i \in 1..Len(r.flushes) |-> r.flushes[i].audio]
    /\ UNCHANGED <<llm_in, llm_vars, tts_in, out, spoken, tts_last>>

\* The await of _transcribe_buffer returns: the finally clause resets the
\* buffer and process_frame pushes the audio frame on.
CustomResume ==
    /\ app = "example"
    /\ ~TaskCancelled
    /\ flushing # <<>>
    /\ audio_buffer' = ClearedBuffer(audio_buffer)
    /\ stt_last' = [stt_last EXCEPT !.pushed = Append(@, Head(flushing))]
    /\ flushing' = <<>>
    /\ UNCHANGED <<side_vars, app, model, buffer_threshold, n_frames,
                   utterance_in, n_transcripts, c_audio_chunks, c_utterances,
                   llm_in, llm_vars, tts_in, out, spoken, tts_last>>

RECURSIVE TranscriptTexts(_)
\* The texts of the TranscriptionFrames of a sequence of frames, in order.
TranscriptTexts(fs) ==
    IF fs = <<>> THEN <<>>
    ELSE (IF IsTranscriptionFrame(Head(fs)) THEN <<Head(fs).text>> ELSE <<>>)
             \o TranscriptTexts(Tail(fs))

\* main.py: a frame reaches LocalWhisperSTT; what it pushes goes to OllamaLLM.
\* The call has no await between reading the buffer and resetting it: the
\* only one inside the try is never reached.
LocalProcessFrame ==
    /\ app = "main"
    /\ ~TaskCancelled
    /\ n_frames < MaxFrames
    /\ \E f \in InputFrames, eng \in STTOutcomes :
          LET r == LocalProcess(audio_buffer, f, eng)
          IN /\ STTStep(r, f)
             /\ llm_in' = llm_in \o r.pushed
             /\ spoken' = spoken \o TranscriptTexts(r.pushed)
    /\ UNCHANGED <<c_audio_chunks, c_utterances, flushing, llm_vars, tts_in,
                   out, tts_last>>

\* ------------------------------------------------------- language model
\* The content of the system message OllamaLLM.__init__ installs.
SYSTEM_PROMPT ==
    <<"Y", "o", "u", " ", "a", "r", "e", " ", "a", " ", "h", "e", "l", "p",
      "f", "u", "l", " ", "a", "n", "d", " ", "c", "o", "n", "c", "i", "s",
      "e", " ", "v", "o", "i", "c", "e", " ", "a", "s", "s", "i", "s", "t",
      "a", "n", "t", ".">>

\* The text stream_chat yields when the engine call raises.
FALLBACK ==
    <<"I", "'", "m", " ", "s", "o", "r", "r", "y", ",", " ", "b", "u", "t",
      " ", "I", " ", "e", "n", "c", "o", "u", "n", "t", "e", "r", "e", "d",
      " ", "a", "n", " ", "e", "r", "r", "o", "r", " ", "w", "h", "i", "l",
      "e", " ", "t", "r", "y", "i", "n", "g", " ", "t", "o", " ", "r", "e",
      "s", "p", "o", "n", "d", ".">>

Message(r, c) == [role |-> r, content |-> c]

\* OllamaLLM.__init__: self.messages
InitialMessages == <<Message("system", SYSTEM_PROMPT)>>

\* Parts of the stream self._client.chat returns: with or without
\* part["message"]["content"].
LLMParts ==
    {[has_content |-> TRUE, content |-> c] : c \in PartContents}
        \cup {[has_content |-> FALSE, content |-> <<>>]}

\* stream_chat, the loop body: what one part makes the generator yield.
PartYield(part) ==
    IF part.has_content /\ part.content # <<>> THEN <<part.content>> ELSE <<>>

\* `self.messages.append({"role": "user", "content": frame.text})`
AppendUser(msgs, text) == Append(msgs, Message("user", text))

\* Mutation: the request is built from the list as it was before the append.
StreamChatRequest_BeforeAppend(msgs) == SubSeq(msgs, 1, Len(msgs) - 1)

\* `self.llm.stream_chat(self.messages)` and, inside it,
\* `self._client.chat(model=..., messages=messages, stream=True)`: the
\* request carries the list it is handed, whole.
StreamChatRequest(msgs) == msgs

\* `full_response += chunk`
Accumulate(full, chunk) == full \o chunk

\* Mutation: the delta is put in front of the ones already pushed.
PushDelta_Front(queue, chunk) == <<TextFrame(chunk)>> \o queue

\* `await self.push_frame(TextFrame(text=chunk))`
PushDelta(queue, chunk) == Append(queue, TextFrame(chunk))

\* Mutation: the assistant message overwrites the last message of the list.
FinishTurn_ReplaceLast(msgs, full) ==
    IF full # <<>>
    THEN [msgs EXCEPT ![Len(msgs)] = Message("assistant", full)]
    ELSE msgs

\* `if full_response: self.messages.append({"role": "assistant", ...})`
FinishTurn(msgs, full) ==
    IF full # <<>> THEN Append(msgs, Message("assistant", full)) ELSE msgs

\* OllamaLLM.process_frame takes the next frame: a TranscriptionFrame appends
\* the user message and opens the stream; any other frame does nothing.
LLMProcessFrame ==
    /\ app = "main"
    /\ ~TaskCancelled
    /\ llm_pc = "idle"
    /\ llm_in # <<>>
    /\ llm_in' = Tail(llm_in)
    /\ IF IsTranscriptionFrame(Head(llm_in))
       THEN /\ messages' = AppendUser(messages, Head(llm_in).text)
            /\ full_response' = <<>>
            /\ llm_pc' = "streaming"
            /\ llm_calls' = llm_calls + 1
            /\ turn_parts' = <<>>
            /\ turn_deltas' = <<>>
            /\ turn_base' = Len(messages')
            /\ turn_outcome' = "streaming"
            /\ llm_streams' = llm_streams + 1
            /\ turn_request' = StreamChatRequest(messages')
       ELSE UNCHANGED llm_vars
    /\ UNCHANGED <<side_vars, app, stt_vars, tts_in, out, spoken, tts_last>>

\* The engine sends one part; stream_chat yields its content when it has
\* one, and the loop of process_frame accumulates and pushes it.
LLMPart ==
    /\ app = "main"
    /\ ~TaskCancelled
    /\ llm_pc = "streaming"
    /\ turn_outcome = "streaming"
    /\ Len(turn_parts) < MaxParts
    /\ \E part \in LLMParts :
          /\ turn_parts' = Append(turn_parts, part)
          /\ IF PartYield(part) # <<>>
             THEN LET chunk == PartYield(part)[1]
                  IN /\ full_response' = Accumulate(full_response, chunk)
                     /\ tts_in' = PushDelta(tts_in, chunk)
                     /\ turn_deltas' = Append(turn_deltas, chunk)
             ELSE UNCHANGED <<full_response, tts_in, turn_deltas>>
    /\ UNCHANGED <<side_vars, app, stt_vars, llm_in, messages, llm_pc, llm_calls,
                   turn_base, turn_outcome, llm_streams, turn_request, out, spoken,
                   tts_last>>

\* The engine call raises (when opening the stream or between parts):
\* stream_chat yields the fallback text, and the loop of process_frame
\* accumulates it and reaches `await self.push_frame(TextFrame(text=chunk))`.
\* The assistant message is not appended yet: that happens when the push
\* returns and the generator ends (LLMEnd).
LLMFail ==
    /\ app = "main"
    /\ ~TaskCancelled
    /\ llm_pc = "streaming"
    /\ turn_outcome = "streaming"
    /\ full_response' = Accumulate(full_response, FALLBACK)
    /\ tts_in' = PushDelta(tts_in, FALLBACK)
    /\ turn_deltas' = Append(turn_deltas, FALLBACK)
    /\ turn_outcome' = "failed"
    /\ UNCHANGED <<side_vars, app, stt_vars, llm_in, messages, llm_pc,
                   llm_calls, turn_parts, turn_base, llm_streams, turn_request,
                   out, spoken, tts_last>>

\* The stream ends, after its last part or after the fallback text:
\* process_frame leaves the loop and runs the final `if full_response`.
LLMEnd ==
    /\ app = "main"
    /\ ~TaskCancelled
    /\ llm_pc = "streaming"
    /\ messages' = FinishTurn(messages, full_response)
    /\ llm_pc' = "idle"
    /\ turn_outcome' = IF turn_outcome = "failed" THEN "failed" ELSE "completed"
    /\ llm_streams' = llm_streams - 1
    /\ UNCHANGED <<side_vars, app, stt_vars, llm_in, full_response, llm_calls,
                   turn_parts, turn_deltas, turn_base, turn_request, tts_in,
                   out, spoken, tts_last>>

\* ------------------------------------------------------- text to speech
\* Outcomes of the POST to the text-to-speech server.
TTSOutcomes ==
    {[kind |-> "ok", audio |-> a] : a \in TTSAudio}
        \cup {[kind |-> "client_error", audio |-> <<>>],
              [kind |-> "error", audio |-> <<>>]}

\* Mutation: only `except aiohttp.ClientError` is there.
Caught_ClientErrorOnly(kind) == kind = "client_error"

\* generate_audio's handlers, `except aiohttp.ClientError` and
\* `except Exception`: the failures of the request they catch.
Caught(kind) == kind = "client_error" \/ kind = "error"

\* generate_audio raises: a failure of the request no handler catches.
GenerateAudioRaises(text, srv) ==
    text # <<>> /\ srv.kind # "ok" /\ ~Caught(srv.kind)

\* Mutation: the request is sent for every text.
GenerateAudioPosts_Always(text) == 1

\* generate_audio: the number of POST requests it sends for a text.
GenerateAudioPosts(text) == IF text = <<>> THEN 0 ELSE 1

\* KokoroTTSClient.generate_audio
GenerateAudio(text, srv) ==
    IF text = <<>> THEN <<>>
    ELSE IF srv.kind = "ok" THEN srv.audio
    ELSE <<>>

\* KokoroTTS.process_frame: the frames pushed for one input frame.
TTSFrames(f, srv) ==
    IF IsTextFrame(f)
    THEN LET audio_bytes == GenerateAudio(f.text, srv)
         IN IF audio_bytes # <<>> THEN <<AudioRawFrame(audio_bytes)>> ELSE <<>>
    ELSE <<>>

\* Mutation: the audio frame is put ahead of the frames already pushed.
PushAudio_Front(q, frames) == frames \o q

\* `await self.push_frame(AudioRawFrame(...))`: the frames of one call go
\* downstream after everything pushed before.
PushAudio(q, frames) == q \o frames

\* KokoroTTS.process_frame called with no frame yet.
NoTTSCall ==
    [frame |-> OtherFrame, kind |-> "none", audio |-> <<>>, posts |-> 0,
     pushed |-> <<>>, raised |-> FALSE, after_failure |-> FALSE,
     waiting |-> FALSE]

\* The call sent a request to the server and the request failed.
FailedRequest(call) == call.posts > 0 /\ ~call.waiting /\ call.kind # "ok"

\* A process_frame call of KokoroTTS starts on frame f: for a TextFrame
\* with a text generate_audio sends the request and the call waits at
\* `await self.client.generate_audio(frame.text)`; any other frame, and a
\* TextFrame with no text, is done with at once and nothing is pushed.
TTSCallStarts(f, last) ==
    LET posts == IF IsTextFrame(f) THEN GenerateAudioPosts(f.text) ELSE 0
    IN [frame |-> f, kind |-> "none", audio |-> <<>>, posts |-> posts,
        pushed |-> <<>>, raised |-> FALSE,
        after_failure |-> FailedRequest(last), waiting |-> posts > 0]

\* The server answers srv, generate_audio returns, and the call pushes the
\* audio frame `if audio_bytes` and returns.
TTSCallReturns(call, srv) ==
    [call EXCEPT !.kind = srv.kind, !.audio = srv.audio,
                 !.pushed = TTSFrames(call.frame, srv),
                 !.raised = GenerateAudioRaises(call.frame.text, srv),
                 !.waiting = FALSE]

\* KokoroTTS.process_frame takes the next frame, up to the await of
\* generate_audio; the call is kept in tts_last.  Frames are taken one
\* after another.
TTSProcessFrame ==
    /\ app = "main"
    /\ ~TaskCancelled
    /\ ~tts_last.waiting
    /\ tts_in # <<>>
    /\ tts_last' = TTSCallStarts(Head(tts_in), tts_last)
    /\ tts_in' = Tail(tts_in)
    /\ UNCHANGED <<side_vars, app, stt_vars, llm_in, llm_vars, out, spoken>>

\* The request of the call in progress is answered: generate_audio returns
\* the audio, or b"" after a failure, and process_frame pushes and returns.
TTSAnswer ==
    /\ app = "main"
    /\ ~TaskCancelled
    /\ tts_last.waiting
    /\ \E srv \in TTSOutcomes :
          /\ tts_last' = TTSCallReturns(tts_last, srv)
          /\ out' = PushAudio(out, tts_last'.pushed)
    /\ UNCHANGED <<side_vars, app, stt_vars, llm_in, llm_vars, tts_in, spoken>>

\* ------------------------------------------------------- bot_config.py
\* The prompt get_system_prompt returns when no bot is named.
DEFAULT_PROMPT ==
    <<"Y", "o", "u", " ", "a", "r", "e", " ", "C", "h", "a", "t", "b", "o",
      "t", ",", " ", "a", " ", "f", "r", "i", "e", "n", "d", "l", "y", ",",
      " ", "h", "e", "l", "p", "f", "u", "l", " ", "r", "o", "b", "o", "t",
      ".", " ", "Y", "o", "u", "r", " ", "g", "o", "a", "l", " ", "i", "s",
      " ", "t", "o", " ", "d", "e", "m", "o", "n", "s", "t", "r", "a", "t",
      "e", " ", "y", "o", "u", "r", " ", "c", "a", "p", "a", "b", "i", "l",
      "i", "t", "i", "e", "s", " ", "i", "n", " ", "a", " ", "s", "u", "c",
      "c", "i", "n", "c", "t", " ", "w", "a", "y", ".", " ", "Y", "o", "u",
      "r", " ", "o", "u", "t", "p", "u", "t", " ", "w", "i", "l", "l", " ",
      "b", "e", " ", "c", "o", "n", "v", "e", "r", "t", "e", "d", " ", "t",
      "o", " ", "a", "u", "d", "i", "o", " ", "s", "o", " ", "d", "o", "n",
      "'", "t", " ", "i", "n", "c", "l", "u", "d", "e", " ", "s", "p", "e",
      "c", "i", "a", "l", " ", "c", "h", "a", "r", "a", "c", "t", "e", "r",
      "s", " ", "i", "n", " ", "y", "o", "u", "r", " ", "a", "n", "s", "w",
      "e", "r", "s", ".", " ", "R", "e", "s", "p", "o", "n", "d", " ", "t",
      "o", " ", "w", "h", "a", "t", " ", "t", "h", "e", " ", "u", "s", "e",
      "r", " ", "s", "a", "i", "d", " ", "i", "n", " ", "a", " ", "c", "r",
      "e", "a", "t", "i", "v", "e", " ", "a", "n", "d", " ", "h", "e", "l",
      "p", "f", "u", "l", " ", "w", "a", "y", ",", " ", "b", "u", "t", " ",
      "k", "e", "e", "p", " ", "y", "o", "u", "r", " ", "r", "e", "s", "p",
      "o", "n", "s", "e", "s", " ", "b", "r", "i", "e", "f", ".", " ", "S",
      "t", "a", "r", "t", " ", "b", "y", " ", "i", "n", "t", "r", "o", "d",
      "u", "c", "i", "n", "g", " ", "y", "o", "u", "r", "s", "e", "l", "f",
      ".">>

\* No call of bot_config.py has been made, with no inputs.
NoConfig ==
    [given |-> FALSE, bot_name |-> <<>>, list_bots |-> FALSE,
     dir |-> FALSE, listing |-> <<>>,
     exists |-> FALSE, readable |-> FALSE, decodes |-> TRUE,
     content |-> <<>>,
     load |-> [kind |-> "none", value |-> <<>>],
     bots |-> [kind |-> "none", value |-> <<>>],
     args |-> [kind |-> "none", value |-> <<>>, status |-> 0,
               available |-> <<>>],
     prompt |-> [kind |-> "none", value |-> <<>>, status |-> 0]]

\* Names given with --bot: the empty string and two names.
BotNames == { <<>>, <<"z", "o", "e">>, <<"m", "a", "x">> }

\* Contents of the file bots/<name>.txt.
FileContents ==
    { <<>>, <<" ">>, <<"\n", "\t">>, <<"o", "k">>, <<" ", "h", "i", "\n">>,
      <<"a", " ", "b">>, <<"\t", "x">> }

\* The extension of a personality file.
TXT == <<".", "t", "x", "t">>

\* What os.listdir("bots") returns: no file, the file of one bot, and a
\* directory with the files of both bots, a file that is no personality and
\* a file that carries the extension twice.
DirListings ==
    { <<>>,
      << <<"z", "o", "e">> \o TXT >>,
      << <<"z", "o", "e">> \o TXT, <<"R", "E", "A", "D", "M", "E">>,
         <<"m", "a", "x">> \o TXT, <<"z", "o", "e">> \o TXT \o TXT >> }

\* str.endswith
EndsWith(x, suffix) ==
    /\ Len(x) >= Len(suffix)
    /\ SubSeq(x, Len(x) - Len(suffix) + 1, Len(x)) = suffix

RECURSIVE Replace(_, _)
\* str.replace(old, ""): every occurrence of old, from the left, is removed.
Replace(x, old) ==
    IF Len(x) < Len(old) THEN x
    ELSE IF SubSeq(x, 1, Len(old)) = old
    THEN Replace(SubSeq(x, Len(old) + 1, Len(x)), old)
    ELSE <<Head(x)>> \o Replace(Tail(x), old)

\* list_available_bots: [] without the directory, else the names of the
\* files that end with ".txt", with every ".txt" removed, in the order of the
\* listing.
ListAvailableBots(dir, listing) ==
    IF ~dir THEN <<>>
    ELSE LET kept == SelectSeq(listing, LAMBDA f : EndsWith(f, TXT))
         IN [i \in 1..Len(kept) |-> Replace(kept[i], TXT)]

\* ord(c) of the characters that occur in the names of DirListings.
Ord(c) ==
    CASE c = "." -> 46
      [] c = "A" -> 65
      [] c = "D" -> 68
      [] c = "E" -> 69
      [] c = "M" -> 77
      [] c = "R" -> 82
      [] c = "a" -> 97
      [] c = "e" -> 101
      [] c = "m" -> 109
      [] c = "o" -> 111
      [] c = "t" -> 116
      [] c = "x" -> 120
      [] c = "z" -> 122

RECURSIVE StrLess(_, _)
\* x < y of two str: by code point, a proper prefix is the smaller.
StrLess(x, y) ==
    IF y = <<>> THEN FALSE
    ELSE IF x = <<>> THEN TRUE
    ELSE IF Head(x) = Head(y) THEN StrLess(Tail(x), Tail(y))
    ELSE Ord(Head(x)) < Ord(Head(y))

RECURSIVE Sorted(_)
\* sorted(names): ascending, equal names kept in their order.
Sorted(names) ==
    IF names = <<>> THEN <<>>
    ELSE LET rest == Sorted(Tail(names))
             before == SelectSeq(rest, LAMBDA n : StrLess(n, Head(names)))
             after == SelectSeq(rest, LAMBDA n : ~StrLess(n, Head(names)))
         IN before \o <<Head(names)>> \o after

\* os.path.exists(os.path.join("bots", f"{bot_name}.txt"))
BotFileExists(dir, listing, bot_name) ==
    dir /\ \E i \in 1..Len(listing) : listing[i] = bot_name \o TXT

\* The command line (--bot with its name, or None when not given, and
\* --list-bots) and the file system the functions meet: whether the
\* directory bots exists and what it lists, whether bots/<name>.txt exists,
\* whether it can be opened and read, whether its bytes are UTF-8, and what
\* is in it.
ConfigInputs ==
    {[given |-> g, bot_name |-> b, list_bots |-> l, dir |-> d, listing |-> ls,
      exists |-> BotFileExists(d, ls, b), readable |-> r,
      decodes |-> u, content |-> c,
      load |-> [kind |-> "none", value |-> <<>>],
      bots |-> [kind |-> "none", value |-> <<>>],
      args |-> [kind |-> "none", value |-> <<>>, status |-> 0,
                available |-> <<>>],
      prompt |-> [kind |-> "none", value |-> <<>>, status |-> 0]] :
        g \in BOOLEAN, b \in BotNames, l \in BOOLEAN, d \in BOOLEAN,
        ls \in DirListings, r \in BOOLEAN, u \in BOOLEAN, c \in FileContents}

\* Inputs that differ in what the code can see.
IsConfigInput(c) ==
    /\ ~c.given => c.bot_name = <<>>
    /\ ~c.dir => c.listing = <<>>
    /\ ~c.exists => ~c.readable
    /\ ~c.readable => c.decodes
    /\ (~c.readable \/ ~c.decodes) => c.content = <<>>

\* `except (FileNotFoundError, ValueError)`: UnicodeDecodeError derives from
\* ValueError.
CaughtByGetSystemPrompt(kind) ==
    kind \in {"FileNotFoundError", "ValueError", "UnicodeDecodeError"}

\* Mutation: the content is returned without the test for emptiness.
LoadBotPrompt_NoEmptyTest(exists, readable, decodes, content) ==
    IF ~exists THEN [kind |-> "FileNotFoundError", value |-> <<>>]
    ELSE IF ~readable THEN [kind |-> "OSError", value |-> <<>>]
    ELSE IF ~decodes THEN [kind |-> "UnicodeDecodeError", value |-> <<>>]
    ELSE [kind |-> "return", value |-> Strip(content)]

\* load_bot_prompt: FileNotFoundError when the file does not exist, the
\* OSError of open() or read() when it cannot be read, the
\* UnicodeDecodeError of read() when its bytes are not UTF-8, ValueError
\* when its stripped content is empty, the stripped content otherwise.
LoadBotPrompt(exists, readable, decodes, content) ==
    IF ~exists THEN [kind |-> "FileNotFoundError", value |-> <<>>]
    ELSE IF ~readable THEN [kind |-> "OSError", value |-> <<>>]
    ELSE IF ~decodes THEN [kind |-> "UnicodeDecodeError", value |-> <<>>]
    ELSE IF Strip(content) = <<>> THEN [kind |-> "ValueError", value |-> <<>>]
    ELSE [kind |-> "return", value |-> Strip(content)]

\* get_system_prompt: `if bot_name:` loads the prompt, and sys.exit(1) on
\* FileNotFoundError and ValueError, a file that is not UTF-8 included; any
\* other error propagates; without a name the default prompt is returned.
GetSystemPrompt(given, bot_name, exists, readable, decodes, content) ==
    IF given /\ bot_name # <<>>
    THEN LET r == LoadBotPrompt(exists, readable, decodes, content)
         IN IF r.kind = "return"
            THEN [kind |-> "return", value |-> r.value, status |-> 0]
            ELSE IF CaughtByGetSystemPrompt(r.kind)
            THEN [kind |-> "exit", value |-> <<>>, status |-> 1]
            ELSE [kind |-> "raise", value |-> <<>>, status |-> 0]
    ELSE [kind |-> "return", value |-> DEFAULT_PROMPT, status |-> 0]

\* parse_bot_args: --list-bots prints the personalities, sorted, and ends the
\* process with status 0; a name given with --bot is validated by
\* load_bot_prompt, and FileNotFoundError and ValueError end the process with
\* status 1 after the sorted personalities are logged; any other error
\* propagates; otherwise the name is returned, None when --bot was not given.
\* `available` is what is printed or logged.
ParseBotArgs(list_bots, given, bot_name, dir, listing, exists, readable, decodes, content) ==
    IF list_bots
    THEN [kind |-> "exit", value |-> <<>>, status |-> 0,
          available |-> Sorted(ListAvailableBots(dir, listing))]
    ELSE IF given /\ bot_name # <<>>
    THEN LET r == LoadBotPrompt(exists, readable, decodes, content)
         IN IF r.kind = "return"
            THEN [kind |-> "return", value |-> bot_name, status |-> 0,
                  available |-> <<>>]
            ELSE IF CaughtByGetSystemPrompt(r.kind)
            THEN [kind |-> "exit", value |-> <<>>, status |-> 1,
                  available |-> Sorted(ListAvailableBots(dir, listing))]
            ELSE [kind |-> "raise", value |-> <<>>, status |-> 0,
                  available |-> <<>>]
    ELSE [kind |-> "return", value |-> bot_name, status |-> 0,
          available |-> <<>>]

\* sys.exit has ended the process.
ProcessExited == cfg.args.kind = "exit" \/ cfg.prompt.kind = "exit"

\* parse_bot_args() is called.
CallParseBotArgs ==
    /\ ~ProcessExited
    /\ cfg.args.kind = "none"
    /\ cfg' = [cfg EXCEPT !.args =
                  ParseBotArgs(cfg.list_bots, cfg.given, cfg.bot_name, cfg.dir,
                               cfg.listing, cfg.exists, cfg.readable,
                               cfg.decodes, cfg.content)]
    /\ UNCHANGED <<app, stt_vars, llm_in, llm_vars, tts_in, out, spoken,
                   tts_last, sess_vars, conns>>

\* list_available_bots() is called.
CallListAvailableBots ==
    /\ ~ProcessExited
    /\ cfg.bots.kind = "none"
    /\ cfg' = [cfg EXCEPT !.bots =
                  [kind |-> "return",
                   value |-> ListAvailableBots(cfg.dir, cfg.listing)]]
    /\ UNCHANGED <<app, stt_vars, llm_in, llm_vars, tts_in, out, spoken,
                   tts_last, sess_vars, conns>>

\* load_bot_prompt(bot_name) is called.
CallLoadBotPrompt ==
    /\ ~ProcessExited
    /\ cfg.given
    /\ cfg.load.kind = "none"
    /\ cfg' = [cfg EXCEPT !.load =
                  LoadBotPrompt(cfg.exists, cfg.readable, cfg.decodes,
                                cfg.content)]
    /\ UNCHANGED <<app, stt_vars, llm_in, llm_vars, tts_in, out, spoken,
                   tts_last, sess_vars, conns>>

\* get_system_prompt(bot_name) is called.
CallGetSystemPrompt ==
    /\ ~ProcessExited
    /\ cfg.prompt.kind = "none"
    /\ cfg' = [cfg EXCEPT !.prompt =
                  GetSystemPrompt(cfg.given, cfg.bot_name, cfg.exists,
                                  cfg.readable, cfg.decodes, cfg.content)]
    /\ UNCHANGED <<app, stt_vars, llm_in, llm_vars, tts_in, out, spoken,
                   tts_last, sess_vars, conns>>

\* ------------------------------------------- connections of main.py
\* websocket_endpoint runs once for every connection, and the runs overlap.
\* Each run constructs its own LocalWhisperSTT and OllamaLLM.  The objects
\* they hold, the bytearray _audio_buffer and the list messages, live in a
\* heap; a processor holds a reference, and 0 stands for no object.
Conns == {1, 2}

Refs == {1, 2, 3}

\* Mutation: every evaluation gives the same object, as a class attribute
\* or a default argument would.
FreshRef_Shared(live) == 1

\* `bytearray()` and the list display in __init__ make a new object: one
\* that is none of the live ones.
FreshRef(live) ==
    CHOOSE r \in Refs : r \notin live /\ \A q \in Refs : q \notin live => r <= q

\* The objects some processor of the connections k refers to.
LiveBuffers(k) == {k.stt[c] : c \in Conns} \ {0}

LiveLists(k) == {k.llm[c] : c \in Conns} \ {0}

\* OllamaLLM.messages of connection c.
HistoryOf(k, c) == IF k.llm[c] = 0 THEN <<>> ELSE k.lists[k.llm[c]]

\* LocalWhisperSTT._audio_buffer of connection c.
BufferOf(k, c) == IF k.stt[c] = 0 THEN <<>> ELSE k.buffers[k.stt[c]]

\* websocket_endpoint: LocalWhisperSTT(...) and OllamaLLM(...) are
\* constructed for connection c.
OpenConnection(k, c) ==
    LET b == FreshRef(LiveBuffers(k))
        l == FreshRef(LiveLists(k))
    IN [k EXCEPT !.stt[c] = b, !.buffers[b] = <<>>,
                 !.llm[c] = l, !.lists[l] = InitialMessages,
                 !.streaming[c] = FALSE]

\* LocalWhisperSTT of connection c accepts an audio frame.
ConnectionAudio(k, c, audio) ==
    [k EXCEPT !.buffers[k.stt[c]] = ExtendBuffer(@, audio)]

\* LocalWhisperSTT of connection c ends an utterance.  np.frombuffer
\* raises for a buffer that is not whole samples, before the try: the call
\* ends there and the buffer stays.  Otherwise the finally clause runs
\* `self._audio_buffer = bytearray()`.
ConnectionFlush(k, c) ==
    IF FromBufferOk(BufferOf(k, c))
    THEN LET b == FreshRef(LiveBuffers(k))
         IN [k EXCEPT !.stt[c] = b, !.buffers[b] = <<>>]
    ELSE k

\* OllamaLLM of connection c is given a transcript: it appends the user
\* message and waits for the engine.
ConnectionTurnStarts(k, c, text) ==
    [k EXCEPT !.lists[k.llm[c]] = AppendUser(@, text), !.streaming[c] = TRUE]

\* The stream of connection c is over with the response `reply`:
\* `if full_response:` the assistant message is appended.
ConnectionTurnEnds(k, c, reply) ==
    [k EXCEPT !.lists[k.llm[c]] = FinishTurn(@, reply), !.streaming[c] = FALSE]

\* A step of connection c.
ConnectionStep(c, k) ==
    /\ conns.n < MaxConnOps
    /\ conns' = [k EXCEPT !.actor = c, !.n = conns.n + 1]
    /\ UNCHANGED <<app, stt_vars, llm_in, llm_vars, tts_in, out, spoken,
                   tts_last, sess_vars, cfg>>

\* A client connects: websocket_endpoint starts.
ConnOpen ==
    \E c \in Conns :
        /\ conns.llm[c] = 0
        /\ ConnectionStep(c, OpenConnection(conns, c))

ConnAudio ==
    \E c \in Conns, a \in AudioChunks \ {<<>>} :
        /\ conns.stt[c] # 0
        /\ ConnectionStep(c, ConnectionAudio(conns, c, a))

ConnFlush ==
    \E c \in Conns :
        /\ conns.stt[c] # 0
        /\ BufferOf(conns, c) # <<>>
        /\ ConnectionStep(c, ConnectionFlush(conns, c))

ConnTurnStarts ==
    \E c \in Conns, x \in {Strip(y) : y \in {z \in EngineTexts : HasInk(z)}} :
        /\ conns.llm[c] # 0
        /\ ~conns.streaming[c]
        /\ ConnectionStep(c, ConnectionTurnStarts(conns, c, x))

ConnTurnEnds ==
    \E c \in Conns, reply \in {<<>>, <<"H", "i">>} :
        /\ conns.llm[c] # 0
        /\ conns.streaming[c]
        /\ ConnectionStep(c, ConnectionTurnEnds(conns, c, reply))

\* No connection is open.
NoConnections ==
    [stt |-> <<0, 0>>, llm |-> <<0, 0>>,
     buffers |-> <<<<>>, <<>>, <<>>>>, lists |-> <<<<>>, <<>>, <<>>>>,
     streaming |-> <<FALSE, FALSE>>, actor |-> 0, n |-> 0]

\* ------------------------------------------------------- specification
\* OllamaLLM was iterating no stream.
NoStream == [turn |-> 0, deltas |-> 0]

\* The processors of program a, as constructed.
InitStages(a) ==
    /\ app = a
    /\ model \in (IF a = "example" THEN BOOLEAN ELSE {TRUE})
    /\ buffer_threshold \in (IF a = "example" THEN 0..MaxThreshold ELSE {0})
    /\ audio_buffer = <<>>
    /\ n_frames = 0
    /\ stt_last = [frame |-> OtherFrame, before |-> <<>>, heard |-> <<>>,
                   pushed |-> <<>>, calls |-> <<>>, flushes |-> <<>>,
                   raised |-> FALSE]
    /\ utterance_in = <<>>
    /\ n_transcripts = 0
    /\ c_audio_chunks = <<>>
    /\ c_utterances = <<>>
    /\ flushing = <<>>
    /\ llm_in = <<>>
    /\ messages = InitialMessages
    /\ llm_pc = "idle"
    /\ full_response = <<>>
    /\ llm_calls = 0
    /\ turn_parts = <<>>
    /\ turn_deltas = <<>>
    /\ turn_base = 0
    /\ turn_outcome = "none"
    /\ tts_in = <<>>
    /\ out = <<>>
    /\ llm_streams = 0
    /\ turn_request = <<>>
    /\ spoken = <<>>
    /\ tts_last = NoTTSCall

\* The session before any transport event.
InitSession ==
    /\ session = "idle"
    /\ queued = <<>>
    /\ ready_pc = "none"
    /\ disconnected = FALSE
    /\ stream_cut = NoStream

Init ==
    /\ \E a \in {"example", "main"} : InitStages(a)
    /\ InitSession
    /\ cfg = NoConfig
    /\ conns = NoConnections

\* The speech-to-text processor of each program and what follows it.  In
\* main.py LocalWhisperSTT pushes no TranscriptionFrame, so OllamaLLM takes
\* the frames passed on to it and opens no stream; its streams and KokoroTTS
\* are followed in SpecLLM and SpecTTS.
Next ==
    \/ CustomProcessFrame
    \/ CustomResume
    \/ LocalProcessFrame
    \/ LLMProcessFrame

Spec == Init /\ [][Next]_vars

\* ------------------------------------ the generation stage on its own
\* Frames OllamaLLM.process_frame can be called with: a TranscriptionFrame
\* with a text, or any other frame (an audio frame, a text frame, a control
\* frame).
LLMInputFrames ==
    {AudioRawFrame(<<2, 255>>), TextFrame(<<"e", "n", "d">>), OtherFrame}
        \cup {TranscriptionFrame(Strip(x)) : x \in {y \in EngineTexts : HasInk(y)}}

\* OllamaLLM is pushed a frame.
LLMDeliver ==
    /\ app = "main"
    /\ ~TaskCancelled
    /\ n_frames < MaxLLMFrames
    /\ n_frames' = n_frames + 1
    /\ \E f \in LLMInputFrames :
          /\ llm_in' = Append(llm_in, f)
          /\ spoken' = spoken \o TranscriptTexts(<<f>>)
    /\ UNCHANGED <<side_vars, app, model, buffer_threshold, audio_buffer,
                   stt_last, utterance_in, n_transcripts, c_audio_chunks,
                   c_utterances, flushing, llm_vars, tts_in, out, tts_last>>

InitLLM ==
    /\ InitStages("main")
    /\ InitSession
    /\ cfg = NoConfig
    /\ conns = NoConnections

NextLLM ==
    \/ LLMDeliver
    \/ LLMProcessFrame
    \/ LLMPart
    \/ LLMFail
    \/ LLMEnd

SpecLLM == InitLLM /\ [][NextLLM]_vars

\* ------------------------------------- the synthesis stage on its own
\* Frames KokoroTTS.process_frame can be called with.
TTSInputFrames == {TextFrame(x) : x \in TTSTexts} \cup {OtherFrame}

\* The processor before KokoroTTS pushes a frame to it.
TTSDeliver ==
    /\ app = "main"
    /\ ~TaskCancelled
    /\ n_frames < MaxTTSFrames
    /\ n_frames' = n_frames + 1
    /\ \E f \in TTSInputFrames : tts_in' = Append(tts_in, f)
    /\ UNCHANGED <<side_vars, app, model, buffer_threshold, audio_buffer,
                   stt_last, utterance_in, n_transcripts, c_audio_chunks,
                   c_utterances, flushing, llm_in, llm_vars, out, spoken,
                   tts_last>>

NextTTS ==
    \/ TTSDeliver
    \/ TTSProcessFrame
    \/ TTSAnswer

SpecTTS == InitLLM /\ [][NextTTS]_vars

\* ------------------------------------------------ the configuration
InitConfig ==
    /\ InitStages("main")
    /\ InitSession
    /\ cfg \in {c \in ConfigInputs : IsConfigInput(c)}
    /\ conns = NoConnections

NextConfig ==
    \/ CallParseBotArgs
    \/ CallListAvailableBots
    \/ CallLoadBotPrompt
    \/ CallGetSystemPrompt

SpecConfig == InitConfig /\ [][NextConfig]_vars

\* -------------------------------------------------- the connections
InitConns ==
    /\ InitStages("main")
    /\ InitSession
    /\ cfg = NoConfig
    /\ conns = NoConnections

NextConns ==
    \/ ConnOpen
    \/ ConnAudio
    \/ ConnFlush
    \/ ConnTurnStarts
    \/ ConnTurnEnds

SpecConns == InitConns /\ [][NextConns]_vars

\* --------------------------------------------------------------- session
\* The entry points: bot-local.py, example/bot.py and main.py.
SessionApps == {"bot-local", "example", "main"}

\* The text of the TextFrame example/bot.py queues when a client connects.
GREETING ==
    <<"H", "e", "l", "l", "o", "!", " ", "I", "'", "m", " ", "y", "o", "u",
      "r", " ", "l", "o", "c", "a", "l", " ", "A", "I", " ", "a", "s", "s",
      "i", "s", "t", "a", "n", "t", ".", " ", "H", "o", "w", " ", "c", "a",
      "n", " ", "I", " ", "h", "e", "l", "p", " ", "y", "o", "u", " ", "t",
      "o", "d", "a", "y", "?">>

\* bot-local.py queues an LLMRunFrame when the client is ready.
LLMRunFrame == Frame("llm_run", <<>>, <<>>)

\* Mutation: every entry point queues the greeting when the transport
\* connects.
OnClientConnected_GreetsAlways(a, q) == Append(q, TextFrame(GREETING))

\* The on_client_connected handlers: bot-local.py only logs, example/bot.py
\* queues the greeting, main.py registers none.
OnClientConnected(a, q) ==
    IF a = "example" THEN Append(q, TextFrame(GREETING)) ELSE q

\* The on_client_ready handler, registered by bot-local.py alone, after
\* `await rtvi.set_bot_ready()`: `await task.queue_frames([LLMRunFrame()])`.
OnClientReady(a, q) ==
    IF a = "bot-local" THEN Append(q, LLMRunFrame) ELSE q

\* The on_client_disconnected handlers: bot-local.py and example/bot.py call
\* `await task.cancel()`, main.py registers no handler.
OnClientDisconnected(a, s) ==
    IF a \in {"bot-local", "example"} THEN "cancelling" ELSE s

\* The transport reports that a client connected.
ClientConnected ==
    /\ session = "idle"
    /\ ~disconnected
    /\ session' = "connected"
    /\ queued' = OnClientConnected(app, queued)
    /\ UNCHANGED <<app, stt_vars, llm_in, llm_vars, tts_in, out, spoken,
                   tts_last, ready_pc, disconnected, stream_cut, cfg, conns>>

\* The client signals that it is ready; only the RTVI processor of
\* bot-local.py reports it.  on_client_ready runs
\* `await rtvi.set_bot_ready()` and stays at that await.
ClientReady ==
    /\ app = "bot-local"
    /\ session = "connected"
    /\ ~disconnected
    /\ session' = "ready"
    /\ ready_pc' = "bot_ready"
    /\ UNCHANGED <<app, stt_vars, llm_in, llm_vars, tts_in, out, spoken,
                   tts_last, queued, disconnected, stream_cut, cfg, conns>>

\* on_client_ready goes on after set_bot_ready:
\* `await task.queue_frames([LLMRunFrame()])`.  Nothing in the handler looks
\* at the task: it queues the frame also when on_client_disconnected has
\* cancelled the task in between.
ClientReadyQueues ==
    /\ ready_pc = "bot_ready"
    /\ queued' = OnClientReady(app, queued)
    /\ ready_pc' = "done"
    /\ UNCHANGED <<app, stt_vars, llm_in, llm_vars, tts_in, out, spoken,
                   tts_last, session, disconnected, stream_cut, cfg, conns>>

\* The pipeline of bot-local.py, all library services, starts on the queued
\* frame: frames flow.
FrameFlow ==
    /\ app = "bot-local"
    /\ session = "ready"
    /\ queued # <<>>
    /\ session' = "active"
    /\ UNCHANGED <<app, stt_vars, llm_in, llm_vars, tts_in, out, spoken,
                   tts_last, queued, ready_pc, disconnected, stream_cut, cfg,
                   conns>>

\* The transport reports that the client disconnected: the handlers of
\* bot-local.py and example/bot.py call `await task.cancel()`.
ClientDisconnected ==
    /\ ~disconnected
    /\ ~TaskCancelled
    /\ session # "idle"
    /\ disconnected' = TRUE
    /\ stream_cut' = IF llm_pc = "streaming"
                     THEN [turn |-> llm_calls, deltas |-> Len(turn_deltas)]
                     ELSE NoStream
    /\ session' = OnClientDisconnected(app, session)
    /\ UNCHANGED <<app, stt_vars, llm_in, llm_vars, tts_in, out, spoken,
                   tts_last, queued, ready_pc, cfg, conns>>

\* The task is cancelled while a process_frame call of CustomWhisperSTT is
\* suspended in _transcribe_buffer: the call is cancelled at its await, the
\* finally clause resets the buffer, and the call pushes nothing more.
FlushCancelled ==
    /\ app = "example"
    /\ session = "cancelling"
    /\ flushing # <<>>
    /\ audio_buffer' = ClearedBuffer(audio_buffer)
    /\ flushing' = <<>>
    /\ UNCHANGED <<side_vars, app, model, buffer_threshold, n_frames, stt_last,
                   utterance_in, n_transcripts, c_audio_chunks, c_utterances,
                   llm_in, llm_vars, tts_in, out, spoken, tts_last>>

\* Cancelling -> Closed: the cancellation has gone through the pipeline, no
\* call of a processor is left, and the run of the task ends.  What
\* PipelineTask.cancel() and PipelineRunner.run() do is code of the pipecat
\* library; the step is the one section 4.5 of the specification describes.
SessionClose ==
    /\ session = "cancelling"
    /\ flushing = <<>>
    /\ session' = "closed"
    /\ UNCHANGED <<app, stt_vars, llm_in, llm_vars, tts_in, out, spoken,
                   tts_last, queued, ready_pc, disconnected, stream_cut, cfg,
                   conns>>

\* One session of each entry point.  example/bot.py runs with a loaded
\* model and a threshold of two bytes.
InitSessions ==
    /\ \E a \in SessionApps : InitStages(a)
    /\ app = "example" => model /\ buffer_threshold = 2
    /\ InitSession
    /\ cfg = NoConfig
    /\ conns = NoConnections

NextSession ==
    \/ ClientConnected
    \/ ClientReady
    \/ ClientReadyQueues
    \/ FrameFlow
    \/ ClientDisconnected
    \/ FlushCancelled
    \/ SessionClose
    \/ CustomProcessFrame
    \/ CustomResume
    \/ LLMDeliver
    \/ LLMProcessFrame
    \/ LLMPart
    \/ LLMFail
    \/ LLMEnd

SpecSession == InitSessions /\ [][NextSession]_vars

\* The sessions of the entry points that register handlers.
InitLifecycle == InitSessions /\ app # "main"

NextLifecycle ==
    \/ ClientConnected
    \/ ClientReady
    \/ ClientReadyQueues
    \/ FrameFlow
    \/ ClientDisconnected
    \/ FlushCancelled
    \/ SessionClose
    \/ CustomProcessFrame
    \/ CustomResume

SpecLifecycle == InitLifecycle /\ [][NextLifecycle]_vars

\* ------------------------------------- the flush and its await point
\* CustomWhisperSTT reads the buffer, calls the engine, then
\* `await self.push_frame(TranscriptionFrame(...))` inside the try, and resets
\* the buffer in the finally clause only after that await has returned.
\* Here audio frames are handled while the call is suspended there.
\* LocalWhisperSTT never reaches its await, so its flush is one step.

\* Audio payloads of whole 16-bit samples.
FlushChunks == { <<2, 255>>, <<1, 0>> }

\* The buffers a flush has read.
FlushedAudio(r) == [i \in 1..Len(r.flushes) |-> r.flushes[i].audio]

\* process_frame, the AudioRawFrame branch: the buffer is extended;
\* CustomWhisperSTT then flushes when the threshold is reached, and stays at
\* the await when there is a transcript to push; LocalWhisperSTT pushes the
\* frame on.
FlushAudioArrives ==
    /\ ~TaskCancelled
    /\ n_frames < MaxFlushFrames
    /\ n_frames' = n_frames + 1
    /\ \E a \in FlushChunks, eng \in STTOutcomes :
          LET b1 == ExtendBuffer(audio_buffer, a)
          IN /\ c_audio_chunks' = Append(c_audio_chunks, a)
             /\ IF app = "example" /\ ShouldTranscribe(b1, buffer_threshold, model)
                THEN IF FlushSuspends(b1, eng)
                     THEN /\ audio_buffer' = b1
                          /\ c_utterances' = Append(c_utterances, b1)
                          /\ flushing' = Append(flushing, AudioRawFrame(a))
                     ELSE LET r == TranscribeBuffer(b1, eng)
                          IN /\ audio_buffer' = r.buffer
                             /\ c_utterances' = c_utterances \o FlushedAudio(r)
                             /\ UNCHANGED flushing
                ELSE /\ audio_buffer' = b1
                     /\ UNCHANGED <<c_utterances, flushing>>
             /\ llm_in' = IF app = "main" THEN Append(llm_in, AudioRawFrame(a))
                          ELSE llm_in
    /\ UNCHANGED <<side_vars, app, model, buffer_threshold, stt_last,
                   utterance_in, n_transcripts, llm_vars, tts_in, out, spoken,
                   tts_last>>

\* LocalWhisperSTT.process_frame, the end-of-utterance branch: the whole
\* call.
FlushSignal ==
    /\ app = "main"
    /\ ~TaskCancelled
    /\ n_frames < MaxFlushFrames
    /\ n_frames' = n_frames + 1
    /\ \E x \in SignalTexts, eng \in STTOutcomes :
          LET f == TextFrame(x)
              r == LocalFlush(audio_buffer, f, eng)
          IN /\ IsEndOfUtterance(f)
             /\ audio_buffer' = r.buffer
             /\ c_utterances' = c_utterances \o FlushedAudio(r)
             /\ llm_in' = llm_in \o r.pushed
             /\ spoken' = spoken \o TranscriptTexts(r.pushed)
    /\ UNCHANGED <<side_vars, app, model, buffer_threshold, stt_last,
                   utterance_in, n_transcripts, c_audio_chunks, flushing,
                   llm_vars, tts_in, out, tts_last>>

\* The await of a suspended call returns: the finally clause resets the
\* buffer, whatever it holds by now, and the call pushes its frame on.
FlushResume ==
    /\ app = "example"
    /\ ~TaskCancelled
    /\ flushing # <<>>
    /\ \E i \in 1..Len(flushing) :
          flushing' = SubSeq(flushing, 1, i - 1)
                          \o SubSeq(flushing, i + 1, Len(flushing))
    /\ audio_buffer' = ClearedBuffer(audio_buffer)
    /\ UNCHANGED <<side_vars, app, model, buffer_threshold, n_frames, stt_last,
                   utterance_in, n_transcripts, c_audio_chunks, c_utterances,
                   llm_in, llm_vars, tts_in, out, spoken, tts_last>>

NextFlush ==
    \/ FlushAudioArrives
    \/ FlushSignal
    \/ FlushResume

SpecFlush == Init /\ [][NextFlush]_vars

\* ================================================================ claims
RECURSIVE Flatten(_)
\* The concatenation of a sequence of sequences, in order.
Flatten(ss) == IF ss = <<>> THEN <<>> ELSE Head(ss) \o Flatten(Tail(ss))

\* Bytes accepted by CustomWhisperSTT so far.
BytesSoFar == Len(Flatten(c_audio_chunks))

\* ---- C1
\* C1: after any sequence of audio chunks given to CustomWhisperSTT with no
\* end-of-utterance signal whose total size is at least the threshold (a
\* positive one),
\* exactly one utterance has been handed to transcription, and its bytes are
\* the concatenation of all the chunks in arrival order.
C1_AnySequenceOneUtterance ==
    (/\ app = "example"
     /\ buffer_threshold > 0
     /\ c_audio_chunks # <<>>
     /\ BytesSoFar >= buffer_threshold)
        => c_utterances = <<Flatten(c_audio_chunks)>>

\* ---- C9
\* The latest process_frame call triggered a flush on an empty buffer: an
\* end-of-utterance TextFrame at LocalWhisperSTT with nothing buffered, or an
\* empty audio chunk at CustomWhisperSTT with threshold 0 and a loaded model.
FlushOnEmptyBuffer ==
    /\ stt_last.before = <<>>
    /\ \/ /\ app = "main"
          /\ stt_last.frame.type = "text"
          /\ HasInk(stt_last.frame.text)
       \/ /\ app = "example"
          /\ stt_last.frame.type = "audio"
          /\ stt_last.frame.audio = <<>>
          /\ buffer_threshold <= 0
          /\ model

HasTranscription(frames) ==
    \E i \in 1..Len(frames) : frames[i].type = "transcription"

\* C9: a flush triggered while the buffer holds zero bytes calls no engine,
\* produces no utterance and no TranscriptionFrame, and leaves the buffer
\* empty.
C9_EmptyFlushIsNoOp ==
    FlushOnEmptyBuffer
        => /\ stt_last.calls = <<>>
           /\ stt_last.flushes = <<>>
           /\ ~HasTranscription(stt_last.pushed)
           /\ audio_buffer = <<>>

\* LocalWhisperSTT got an end-of-utterance TextFrame with an empty buffer.
C9_Witness ==
    /\ FlushOnEmptyBuffer
    /\ app = "main"
    /\ n_frames >= 1
    /\ stt_last.pushed = <<>>

\* ---- C2
\* C2: the first message is the system message, it is the only system
\* message, and after it the roles alternate user, assistant, user, ...
C2_SystemFirstThenAlternation ==
    /\ messages[1].role = "system"
    /\ \A i \in 2..Len(messages) : messages[i].role # "system"
    /\ \A i \in 2..Len(messages) :
          messages[i].role = IF i % 2 = 0 THEN "user" ELSE "assistant"

\* ---- C3
\* C3: a stream that ran to completion without error has appended exactly
\* one assistant message, whose content is the concatenation of the deltas
\* forwarded in that turn.
C3_CompletedStreamAppendsAssistant ==
    turn_outcome = "completed"
        => /\ Len(messages) = turn_base + 1
           /\ messages[Len(messages)] = Message("assistant", Flatten(turn_deltas))

\* ---- C4
\* C4: when the engine call fails before any part arrives, the stage has
\* emitted exactly one delta, the fallback text, and has appended no
\* assistant message: the list is as long as right after the user append
\* and ends with that user message.
C4_FailedCallAppendsNothing ==
    (turn_outcome = "failed" /\ llm_pc = "idle" /\ turn_parts = <<>>)
        => /\ turn_deltas = <<FALLBACK>>
           /\ Len(messages) = turn_base
           /\ messages[Len(messages)].role = "user"

\* Contents the engine sent that are increments: present and not empty.
Increments(parts) ==
    LET kept == SelectSeq(parts, LAMBDA p : p.has_content /\ p.content # <<>>)
    IN [i \in 1..Len(kept) |-> kept[i].content]

\* ---- C5
\* C5: when the stream fails after it yielded increments, no assistant
\* message has been appended for the turn: the list keeps the size it had
\* after the user append.
C5_BrokenStreamAppendsNothing ==
    (turn_outcome = "failed" /\ llm_pc = "idle"
        /\ Increments(turn_parts) # <<>>)
        => /\ Len(messages) = turn_base
           /\ \A i \in 1..Len(messages) :
                 i >= turn_base => messages[i].role # "assistant"

\* ---- C6
\* The latest flush got an engine result with no text left after stripping.
LatestTranscriptEmpty ==
    \E i \in 1..Len(stt_last.flushes) :
        /\ stt_last.flushes[i].outcome = "result"
        /\ ~HasInk(stt_last.flushes[i].text)

\* User messages in a message list.
UserCount(msgs) == Cardinality({i \in 1..Len(msgs) : msgs[i].role = "user"})

\* TranscriptionFrames in a queue.
TranscriptionCount(q) ==
    Cardinality({i \in 1..Len(q) : q[i].type = "transcription"})

\* C6: an engine result that strips to nothing pushes no TranscriptionFrame;
\* so in main.py every user message and every engine request of OllamaLLM is
\* accounted for by a TranscriptionFrame pushed to it, which takes a
\* transcript with text, and without such a frame there is no user message,
\* no request, no text delta and no audio frame.
C6_EmptyTranscriptStopsAtSTT ==
    /\ LatestTranscriptEmpty => ~HasTranscription(stt_last.pushed)
    /\ app = "main" =>
          /\ UserCount(messages) + TranscriptionCount(llm_in) = Len(spoken)
          /\ Len(spoken) <= n_transcripts
          /\ llm_calls = UserCount(messages)
          /\ Len(spoken) = 0 =>
                /\ messages = InitialMessages
                /\ llm_calls = 0
                /\ tts_in = <<>>
                /\ out = <<>>

\* main.py: a whitespace-only transcript was discarded, OllamaLLM has taken
\* every frame LocalWhisperSTT pushed, and nothing happened after it.
C6_Witness ==
    /\ app = "main"
    /\ LatestTranscriptEmpty
    /\ stt_last.calls # <<>>
    /\ llm_in = <<>>
    /\ messages = InitialMessages
    /\ llm_calls = 0
    /\ out = <<>>

\* ---- C7
\* C7: when the transcription of an utterance fails (engine error or
\* malformed audio), the utterance is discarded and process_frame does not
\* raise; and every utterance that is flushed holds only the audio accepted
\* since the flush attempt before it.
C7_FailedUtteranceDiscarded ==
    \A i \in 1..Len(stt_last.flushes) :
        /\ stt_last.flushes[i].outcome \in {"malformed", "engine_error"}
              => (audio_buffer = <<>> /\ ~stt_last.raised)
        /\ stt_last.flushes[i].audio = stt_last.heard

\* ---- C8
\* C8: after every flush, whatever its outcome, the buffer is empty, and
\* the buffer always holds exactly the audio accepted since the latest
\* flush; both are looked at when no process_frame call is suspended in a
\* flush.
C8_BufferEmptyAfterFlush ==
    flushing = <<>> =>
        /\ stt_last.flushes # <<>> => audio_buffer = <<>>
        /\ audio_buffer = utterance_in

\* ---- C10
\* The text deltas a turn must have pushed: the increments received, in
\* order, then the fallback text when the engine call raised.
ExpectedDeltas ==
    Increments(turn_parts)
        \o (IF turn_outcome = "failed" THEN <<FALLBACK>> ELSE <<>>)

\* The last n elements of a sequence.
LastN(s, n) == SubSeq(s, Len(s) - n + 1, Len(s))

\* C10: the deltas pushed in a turn are the content increments received from
\* the engine, one TextFrame per increment, in the order received (followed
\* only by the fallback text when the engine call raised), and they are the
\* latest frames of the queue to KokoroTTS in that order.
C10_DeltasInEngineOrder ==
    /\ turn_deltas = ExpectedDeltas
    /\ Len(tts_in) >= Len(ExpectedDeltas)
    /\ LastN(tts_in, Len(ExpectedDeltas))
          = [i \in 1..Len(ExpectedDeltas) |-> TextFrame(ExpectedDeltas[i])]

\* A stream that completed after two different increments.
C10_Witness ==
    /\ turn_outcome = "completed"
    /\ Len(turn_deltas) = 2
    /\ turn_deltas[1] # turn_deltas[2]
    /\ Len(messages) = turn_base + 1

\* C11: a disconnect that arrives while OllamaLLM iterates a stream stops the
\* stream.  From then on the task is cancelled, at most the delta of the
\* scheduling step under way is pushed, and no assistant message is appended
\* for that turn.
C11_DisconnectStopsStream ==
    (disconnected /\ stream_cut.turn > 0 /\ llm_calls = stream_cut.turn) =>
        /\ TaskCancelled
        /\ Len(turn_deltas) <= stream_cut.deltas + 1
        /\ Len(messages) = turn_base

\* C13: accepting a frame never waits for an inference call.  The
\* process_frame call that accepts an audio frame makes no transcription
\* call, and a frame that arrives at OllamaLLM while it iterates a stream can
\* be taken before the stream ends.
C13_AcceptNeverWaitsForInference ==
    /\ IsAudioRawFrame(stt_last.frame) => stt_last.calls = <<>>
    /\ (llm_pc = "streaming" /\ llm_in # <<>>) => ENABLED LLMProcessFrame

RECURSIVE UserTexts(_)
\* The contents of the user messages of a message list, in order.
UserTexts(msgs) ==
    IF msgs = <<>> THEN <<>>
    ELSE (IF Head(msgs).role = "user" THEN <<Head(msgs).content>> ELSE <<>>)
             \o UserTexts(Tail(msgs))

\* C15: no failure of an engine, malformed input included, leaves the stage
\* that owns it: the process_frame call of the speech-to-text processor
\* never raises, generate_audio raises for no answer of the server, a failed
\* stream ends and leaves OllamaLLM ready for the next frame, and the task
\* is not cancelled.
C15_NoErrorLeavesItsStage ==
    /\ ~stt_last.raised
    /\ \A srv \in TTSOutcomes, x \in TTSTexts : ~GenerateAudioRaises(x, srv)
    /\ turn_outcome = "failed" => (llm_pc = "idle" \/ ENABLED LLMEnd)
    /\ ~TaskCancelled

\* C16: generate_audio("") returns empty bytes and sends no request, whatever
\* the server would answer, so repeating the call gives the same result; and
\* KokoroTTS pushes no audio frame for a TextFrame with empty text.
C16_EmptyTextIsNoOp ==
    /\ \A srv \in TTSOutcomes : GenerateAudio(<<>>, srv) = <<>>
    /\ GenerateAudioPosts(<<>>) = 0
    /\ (IsTextFrame(tts_last.frame) /\ tts_last.frame.text = <<>>) =>
          /\ tts_last.posts = 0
          /\ ~tts_last.waiting
          /\ tts_last.pushed = <<>>
          /\ ~tts_last.raised

\* Two frames went through KokoroTTS: a text that was synthesized, then a
\* TextFrame with empty text, for which no request was sent and nothing was
\* pushed.
C16_Witness ==
    /\ n_frames = 2
    /\ tts_in = <<>>
    /\ tts_last.frame = TextFrame(<<>>)
    /\ tts_last.posts = 0
    /\ ~tts_last.waiting
    /\ Len(out) = 1

\* C17: a failure of the text-to-speech request is absorbed by KokoroTTS:
\* process_frame raises nothing, no audio frame is pushed for that text, and
\* a text whose request succeeds is synthesized as usual, after a failure too.
C17_TTSFailureAbsorbed ==
    /\ ~tts_last.raised
    /\ FailedRequest(tts_last) => tts_last.pushed = <<>>
    /\ (/\ IsTextFrame(tts_last.frame)
        /\ tts_last.frame.text # <<>>
        /\ tts_last.kind = "ok"
        /\ tts_last.audio # <<>>) =>
            tts_last.pushed = <<AudioRawFrame(tts_last.audio)>>

\* The request for one text failed, and the text after it was synthesized.
C17_Witness ==
    /\ tts_last.after_failure
    /\ tts_last.pushed = <<AudioRawFrame(tts_last.audio)>>
    /\ Len(out) = 1

\* C18: load_bot_prompt raises FileNotFoundError when the file does not exist
\* and ValueError when its stripped content is empty; get_system_prompt then
\* exits with status 1 and returns nothing; it returns the stripped, non-empty
\* content when the name resolves and the default prompt when no name is
\* given; the prompt it returns, the first message of a session, is never
\* empty.
C18_PromptResolvedOrExit ==
    /\ cfg.load.kind # "none" =>
          /\ ~cfg.exists => cfg.load.kind = "FileNotFoundError"
          /\ (cfg.readable /\ cfg.decodes /\ Strip(cfg.content) = <<>>) =>
                cfg.load.kind = "ValueError"
          /\ (cfg.readable /\ ~cfg.decodes) =>
                cfg.load.kind = "UnicodeDecodeError"
          /\ cfg.load.kind = "return" =>
                cfg.load.value = Strip(cfg.content) /\ cfg.load.value # <<>>
    /\ cfg.prompt.kind # "none" =>
          /\ (cfg.given /\ cfg.bot_name # <<>>
                /\ (~cfg.exists \/ (cfg.readable /\ Strip(cfg.content) = <<>>))) =>
                cfg.prompt.kind = "exit" /\ cfg.prompt.status = 1
          /\ (cfg.given /\ cfg.bot_name # <<>> /\ cfg.prompt.kind = "return") =>
                /\ cfg.exists /\ cfg.readable /\ cfg.decodes
                /\ cfg.prompt.value = Strip(cfg.content)
          /\ ~cfg.given =>
                cfg.prompt.kind = "return" /\ cfg.prompt.value = DEFAULT_PROMPT
          /\ cfg.prompt.kind = "return" => cfg.prompt.value # <<>>
    /\ InitialMessages[1].content # <<>>

\* get_system_prompt exited for a bot whose file holds only whitespace.
C18_Witness ==
    /\ cfg.given
    /\ cfg.bot_name = <<"z", "o", "e">>
    /\ cfg.readable
    /\ cfg.decodes
    /\ cfg.content = <<"\n", "\t">>
    /\ cfg.load.kind = "ValueError"
    /\ cfg.prompt.kind = "exit"

\* A frame that is neither audio nor text: a control frame.
IsControlFrame(f) == ~IsAudioRawFrame(f) /\ ~IsTextFrame(f)

\* C19: each stage passes on every control frame it is given.  The
\* speech-to-text processor pushes the control frame it has just taken, and
\* when OllamaLLM or KokoroTTS takes a control frame from its queue the frame
\* is appended to what the stage has pushed.
C19_ControlFramesPassedOn ==
    [][/\ IsControlFrame(stt_last'.frame) /\ n_frames' # n_frames
              => stt_last'.pushed = <<stt_last'.frame>>
       /\ (llm_in # <<>> /\ IsControlFrame(Head(llm_in)) /\ llm_in' = Tail(llm_in))
              => tts_in' = Append(tts_in, Head(llm_in))
       /\ (tts_in # <<>> /\ IsControlFrame(Head(tts_in)) /\ tts_in' = Tail(tts_in))
              => out' = Append(out, Head(tts_in))]_vars

\* C20: no mutable state is shared between concurrent sessions.  Two open
\* connections never hold the same buffer or the same message list, and a
\* step of one connection leaves the history and the buffer of every other
\* connection as they were.
C20_SessionsShareNothing ==
    /\ [](\A c, d \in Conns :
             (c # d /\ conns.llm[c] # 0 /\ conns.llm[d] # 0) =>
                 /\ conns.llm[c] # conns.llm[d]
                 /\ conns.stt[c] # conns.stt[d])
    /\ [][\A c \in Conns :
             c # conns'.actor =>
                 /\ HistoryOf(conns', c) = HistoryOf(conns, c)
                 /\ BufferOf(conns', c) = BufferOf(conns, c)]_vars

\* Both connections are open; connection 1 waits for the engine with its
\* user message appended, and connection 2 has just ended a turn of its own
\* with an answer.
C20_Witness ==
    /\ conns.actor = 2
    /\ conns.streaming[1]
    /\ Len(HistoryOf(conns, 1)) = 2
    /\ ~conns.streaming[2]
    /\ Len(HistoryOf(conns, 2)) = 3
    /\ BufferOf(conns, 1) = <<>>

\* C21: on a final transcript the generation stage appends the user message
\* before the engine request is opened, so the request carries the whole
\* message sequence: the system message first, every earlier turn unchanged,
\* and the new user message as its last element.
C21_RequestCarriesWholeContext ==
    [][llm_calls' = llm_calls + 1 =>
          /\ turn_request' = Append(messages, Message("user", Head(llm_in).text))
          /\ turn_request' = messages'
          /\ Head(turn_request') = Message("system", SYSTEM_PROMPT)
          /\ SubSeq(turn_request', 1, Len(messages)) = messages
          /\ turn_request'[Len(turn_request')].role = "user"]_vars

\* A second turn is streaming: its request held the system message, the
\* first exchange and the new user message.
C21_Witness ==
    /\ llm_calls = 2
    /\ llm_pc = "streaming"
    /\ Len(turn_request) = 4
    /\ turn_request[3].role = "assistant"
    /\ turn_request[4] = Message("user", spoken[2])

\* C22: the conversation history is append-only. Every step of the
\* generation stage keeps the existing messages, content and position, the
\* list never shrinks, and one transcript adds at most two messages: its
\* user message, then at most one assistant message.
C22_HistoryAppendOnly ==
    [][/\ Len(messages') >= Len(messages)
       /\ SubSeq(messages', 1, Len(messages)) = messages
       /\ llm_calls' = llm_calls => Len(messages') <= Len(messages) + 1
       /\ llm_calls' # llm_calls => Len(messages') = Len(messages) + 1
       /\ llm_calls' > 0 =>
            /\ turn_base' <= Len(messages')
            /\ Len(messages') <= turn_base' + 1
            /\ messages'[turn_base'] = Message("user", spoken'[llm_calls'])
            /\ Len(messages') = turn_base' + 1 =>
                   messages'[Len(messages')].role = "assistant"
            /\ Len(messages') <= Len(InitialMessages) + 2 * llm_calls']_vars

\* Two transcripts were answered: the list holds the system message and
\* two user/assistant pairs.
C22_Witness ==
    /\ llm_calls = 2
    /\ llm_pc = "idle"
    /\ turn_outcome = "completed"
    /\ Len(messages) = 5
    /\ messages[4].role = "user"
    /\ messages[5].role = "assistant"

\* C23 as stated: the session moves from Connected to Ready only on the
\* client-ready signal, and whatever is injected at the start of the
\* conversation is queued by the handler of that signal, never on the
\* transport-connect event.
C23_GreetingOnlyOnReady ==
    [][/\ (session' = "ready" /\ session # "ready") =>
            session = "connected" /\ ready_pc' = "bot_ready"
       /\ queued' # queued => ready_pc = "bot_ready" /\ ready_pc' = "done"]_vars

\* C23, amended: the session moves from Connected to Ready only on the
\* client-ready signal, which bot-local.py alone handles; the handler of
\* that signal queues the kick-off frame of bot-local.py once the bot is
\* marked ready, and bot-local.py queues nothing on transport-connect, while
\* example/bot.py, which has no Ready state, queues its greeting on the
\* transport-connect event.
C23_KickOffPerEntryPoint ==
    [][/\ (session' = "ready" /\ session # "ready") =>
            /\ app = "bot-local"
            /\ session = "connected"
            /\ ready_pc' = "bot_ready"
            /\ queued' = queued
       /\ (ready_pc = "bot_ready" /\ ready_pc' = "done") =>
            queued' = Append(queued, LLMRunFrame)
       /\ (session = "idle" /\ session' = "connected") =>
            queued' = IF app = "example"
                      THEN Append(queued, TextFrame(GREETING))
                      ELSE queued
       /\ queued' # queued =>
            \/ app = "bot-local" /\ ready_pc = "bot_ready" /\ ready_pc' = "done"
            \/ app = "example" /\ session = "idle" /\ session' = "connected"]_vars

\* example/bot.py has queued its greeting while the session is only
\* connected.
C23_Witness ==
    /\ app = "example"
    /\ session = "connected"
    /\ queued = <<TextFrame(GREETING)>>

\* The samples np.frombuffer reads from a buffer of n bytes.
SamplesHeld(n) == Len(FromBuffer([i \in 1..n |-> 0]))

\* C24: the default flush threshold of the utterance buffer is the number of
\* bytes of one second of 16 kHz mono 16-bit audio, 16000 samples of 2 bytes
\* each: a buffer of that many bytes holds 16000 samples.
C24_DefaultThresholdIsOneSecond ==
    app = "example" =>
        /\ DEFAULT_BUFFER_THRESHOLD = 16000 * 2
        /\ SamplesHeld(DEFAULT_BUFFER_THRESHOLD) = 16000

\* C25: the synthesis stage preserves input order. Each call takes the
\* earliest frame waiting, and only when the call before it has returned;
\* a call pushes at most one audio frame, only for a text frame and
\* carrying the audio the server returned for that text, and puts it after
\* all audio pushed for earlier frames; no other step emits audio.
C25_SynthesisKeepsOrder ==
    [][/\ Len(tts_in') < Len(tts_in) =>
            /\ tts_in' = Tail(tts_in)
            /\ ~tts_last.waiting
            /\ tts_last'.frame = Head(tts_in)
       /\ out' # out =>
            /\ tts_last.waiting /\ ~tts_last'.waiting
            /\ tts_last'.frame = tts_last.frame
            /\ IsTextFrame(tts_last.frame)
            /\ tts_last'.pushed = <<AudioRawFrame(tts_last'.audio)>>
            /\ out' = out \o tts_last'.pushed
       /\ Len(tts_last'.pushed) <= 1]_vars

\* Three frames were taken: the first gave one audio, the request for the
\* second failed, the third gave a different audio, which stands second.
C25_Witness ==
    /\ n_frames = 3
    /\ tts_in = <<>>
    /\ Len(out) = 2
    /\ out[1] # out[2]
    /\ tts_last.after_failure
    /\ tts_last.pushed = <<out[2]>>

\* A frame the stage passes on, as opposed to a transcript it creates.
IsPassedOn(f) == ~IsTranscriptionFrame(f)

\* C26: LocalWhisperSTT forwards downstream every frame it receives, exactly
\* once, whatever the frame type and whatever the buffer holds: of the
\* frames one call pushes, leaving out the transcript it may create, there
\* is the received frame and nothing else, also for an end-of-utterance
\* text frame that finds the buffer empty.
C26_LocalForwardsEveryFrame ==
    (app = "main" /\ n_frames > 0) =>
        SelectSeq(stt_last.pushed, IsPassedOn) = <<stt_last.frame>>

\* C27: the buffered audio of CustomWhisperSTT is bounded. After
\* process_frame has returned for an audio frame the buffer holds fewer than
\* buffer_threshold bytes (for a positive threshold), whether the model was
\* loaded or failed to initialise.
C27_BufferBelowThreshold ==
    (/\ app = "example"
     /\ buffer_threshold > 0
     /\ n_frames > 0
     /\ flushing = <<>>
     /\ IsAudioRawFrame(stt_last.frame)) =>
        Len(audio_buffer) < buffer_threshold

\* C28: no accepted audio byte is lost or transcribed twice. With audio
\* frames handled while a flush is suspended at its await, once no flush is
\* in progress the bytes accepted so far are, in order, the utterances read
\* by the flushes followed by what the buffer still holds.
C28_NoByteLostOrRepeated ==
    flushing = <<>> =>
        Flatten(c_utterances) \o audio_buffer = Flatten(c_audio_chunks)
====
